---- MODULE Spec2Model ----
(***************************************************************************)
(* Model of frontend/src/hooks/useMovies.js: the memoizing GET wrapper     *)
(* (cachedApi), one instance of the useMovies list hook with its debounce  *)
(* timer and abort controller, one instance of a single-entity hook and    *)
(* one instance of the useSeries list hook.                                *)
(*                                                                         *)
(* The event loop is modelled as it runs the code: one action is one       *)
(* task (an effect run, a timer callback, a user call of refetch, a        *)
(* network completion) or one continuation of an await that is already     *)
(* settled (a rejected aborted request, a resolved cache hit).  Settled    *)
(* continuations are microtasks: they run before any other task.           *)
(***************************************************************************)
EXTENDS Integers, Sequences, FiniteSets, TLC

VARIABLES
  \* ---- useMovies: React state (useMovies.js:44-48)
  movies, loading, error, pagination, isDataLoaded,
  \* ---- useMovies: the prop and the refs (useMovies.js:43,50,51,107)
  filters, fetchTimeoutRef, abortControllerRef, isInitialLoadRef,
  \* ---- environment of the hook
  lifecycle,     \* "rendered" (before the first effect), "mounted", "unmounted"
  timers,        \* pending setTimeout callbacks
  inflight,      \* GETs of the hook whose continuation has not run yet
  cache,         \* the module-level Map (useMovies.js:17)
  now,           \* Date.now(), in ms
  \* ---- bookkeeping of the run (not program state)
  nextId,        \* next AbortController / request number
  nextTimer,     \* next timer id
  ticks,         \* number of clock steps taken
  applied,       \* the response applied last: its request, the newest request
                 \* issued by then, and the request applied before it
  lateSet,       \* a state setter ran after unmount
  lastGet,       \* the last cachedApi.get that returned a value: its key, its
                 \* value, its time, and whether it replaced a cache entry
  served,        \* per key, the value the cache-populating get returned
  lastDone,      \* how the last fetchMovies call ended
  burst,         \* the current run of filter changes: their number, the
                 \* requests its timers issued, the times of its first and
                 \* last change, the filters of the request issued last
  \* ---- single-entity hook (useMovies.js:134-268, 317-345)
  eHook, eId, eData, eLoading, eError, eLife, eInflight, eNextId, eLast,
  \* ---- useSeries (useMovies.js:270-315)
  sSeries, sLoading, sError, sPagination, sFilters, sInitialRef,
  sLifecycle, sInflight, sNextId, sIssuedFor,
  \* ---- the query string of a fetchMovies call (useMovies.js:66-76)
  pFilters, pParams, pBuilt,
  \* ---- useSearchSuggestions (useMovies.js:191-218)
  qQuery, qSuggestions, qLoading, qLife, qTimers, qInflight, qNextId, qChanges,
  qLast

hookVars == <<movies, loading, error, pagination, isDataLoaded, filters,
              fetchTimeoutRef, abortControllerRef, isInitialLoadRef,
              lifecycle, timers, inflight, cache, now, nextId, nextTimer,
              ticks, applied, lateSet, lastGet, served, lastDone, burst>>
entityVars == <<eHook, eId, eData, eLoading, eError, eLife, eInflight, eNextId, eLast>>
seriesVars == <<sSeries, sLoading, sError, sPagination, sFilters, sInitialRef,
                sLifecycle, sInflight, sNextId, sIssuedFor>>
paramVars == <<pFilters, pParams, pBuilt>>
suggestVars == <<qQuery, qSuggestions, qLoading, qLife, qTimers, qInflight, qNextId,
                 qChanges, qLast>>
vars == <<hookVars, entityVars, seriesVars, paramVars, suggestVars>>

----------------------------------------------------------------------------
(* Bounds of the exploration *)

MaxRequests == 2      \* refetch() is not called once this many requests were issued
MaxChanges == 2       \* filter changes per run
MaxTicks == 3         \* clock steps per run
MaxEntityRequests == 3   \* requests of the single-entity hook per run
MaxSeriesRequests == 3   \* requests of useSeries per run
MaxQueryChanges == 2     \* changes of the suggestions query per run

(* Program constants *)

CacheTtlMs == 300000
DebounceMs == 150
DefaultLimit == 12

----------------------------------------------------------------------------
(* JavaScript values that occur as filter values *)

JsUndefined == [t |-> "undefined", s |-> "", n |-> 0]
JsNull == [t |-> "null", s |-> "", n |-> 0]
JsStr(str) == [t |-> "string", s |-> str, n |-> 0]
JsNum(num) == [t |-> "number", s |-> "", n |-> num]

\* ToBoolean, as `filters.limit || 12` applies it
Truthy(v) ==
  CASE v.t = "undefined" -> FALSE
    [] v.t = "null" -> FALSE
    [] v.t = "string" -> v.s # ""
    [] v.t = "number" -> v.n # 0

Digit(d) == <<"0", "1", "2", "3", "4", "5", "6", "7", "8", "9">>[d + 1]

RECURSIVE NumStr(_)
NumStr(num) ==
  IF num < 10 THEN Digit(num) ELSE NumStr(num \div 10) \o Digit(num % 10)

\* String(value), as URLSearchParams.append applies it
JsString(v) ==
  CASE v.t = "string" -> v.s
    [] v.t = "number" -> NumStr(v.n)
    [] v.t = "null" -> "null"
    [] v.t = "undefined" -> "undefined"

\* the keys of a filters object, in Object.entries order
FilterKeys == <<"genre", "limit">>

\* variant: null is not filtered out
NonEmptyKeepsNull(v) == ~(v.t = "undefined") /\ ~(v.t = "string" /\ v.s = "")

\* value !== undefined && value !== null && value !== ''
NonEmpty(v) == ~(v.t = "undefined") /\ ~(v.t = "null") /\ ~(v.t = "string" /\ v.s = "")

RECURSIVE AppendFilters(_, _, _)
AppendFilters(f, i, params) ==
  IF i > Len(FilterKeys) THEN params
  ELSE AppendFilters(f, i + 1,
         IF NonEmpty(f[FilterKeys[i]])
           THEN Append(params, <<FilterKeys[i], JsString(f[FilterKeys[i]])>>)
           ELSE params)

\* the URLSearchParams that fetchMovies builds
BuildParams(f) ==
  Append(AppendFilters(f, 1, <<>>),
         <<"limit", JsString(IF Truthy(f.limit) THEN f.limit ELSE JsNum(DefaultLimit))>>)

RECURSIVE ParamsToString(_)
ParamsToString(params) ==
  IF params = <<>> THEN ""
  ELSE LET pair == params[1][1] \o "=" \o params[1][2]
       IN IF Len(params) = 1 THEN pair
          ELSE pair \o "&" \o ParamsToString(Tail(params))

MoviesUrl(f) == "/movies?" \o ParamsToString(BuildParams(f))

\* the filters object of the first render
InitialFilters == [genre |-> JsStr("drama"), limit |-> JsUndefined]

\* the filters objects the caller passes in this model
FilterSet ==
  { [genre |-> JsStr("drama"), limit |-> JsUndefined],
    [genre |-> JsStr(""), limit |-> JsNum(24)] }

----------------------------------------------------------------------------
(* Values that travel between the server, the cache and the hook *)

Null == "null"
NoMsg == "<none>"

NullPagination == [isNull |-> TRUE, total |-> 0, page |-> 0, pages |-> 0]
Pagination(b) == [isNull |-> FALSE, total |-> b.total, page |-> b.page, pages |-> b.pages]

\* response bodies the server can answer /movies with
Body3 == [movies |-> <<"m1", "m2", "m3">>, total |-> 3, page |-> 1, pages |-> 1]
Body1 == [movies |-> <<"m4">>, total |-> 1, page |-> 1, pages |-> 1]
NoBody == [movies |-> <<>>, total |-> 0, page |-> 0, pages |-> 0]
ServerBodies == {Body3, Body1}

\* an axios response object: the body sits under .data
Response(b) == [shape |-> "response", body |-> b]
\* a bare body object: it has no .data
Bare(b) == [shape |-> "body", body |-> b]
NoValue == [shape |-> "none", body |-> NoBody]

\* errors a rejected GET or a failed property read throws
AbortError == [name |-> "AbortError", respMsg |-> NoMsg]
TypeError == [name |-> "TypeError", respMsg |-> NoMsg]
HttpError(msg) == [name |-> "AxiosError", respMsg |-> msg]
\* err.response?.data?.message of a failed request: absent, or the body's text
FailureMsgs == {NoMsg, "server error"}

----------------------------------------------------------------------------
(* cachedApi.get (useMovies.js:19-41) *)

\* `${url}?${JSON.stringify(options)}`; options is {signal}, and an
\* AbortSignal has no enumerable own property, so it serializes as {}
CacheKey(url) == url \o "?" \o "{\"signal\":{}}"

CacheHas(key) == key \in DOMAIN cache

\* variant: an entry of exactly 300000 ms still counts as fresh
CacheFreshInclusive(key) == CacheHas(key) /\ now - cache[key].timestamp <= CacheTtlMs

\* cache.has(cacheKey) && Date.now() - timestamp < 300000
CacheFresh(key) == CacheHas(key) /\ now - cache[key].timestamp < CacheTtlMs

\* what the get returns without a network call: the stored `data`
CacheHitValue(key) == Bare(cache[key].data)

\* cache.set(cacheKey, {data: response.data, timestamp: Date.now()})
CacheSet(key, b) ==
  [k \in DOMAIN cache \cup {key} |->
     IF k = key THEN [data |-> b, timestamp |-> now] ELSE cache[k]]

\* variant: a rejected call stores an empty entry
CacheOnRejectStores(key) == CacheSet(key, NoBody)

\* api.get rejects (line 33): the get throws before cache.set
CacheOnReject(key) == cache

\* what the get returns after the network call: the response itself
CacheMissValue(b) == Response(b)

----------------------------------------------------------------------------
(* useMovies (useMovies.js:43-132) *)

\* controller.abort(): the request of that controller, if still on the
\* network, is rejected
Abort(reqs, ctl) ==
  { IF r.id = ctl /\ r.state = "net" THEN [r EXCEPT !.state = "aborted"] ELSE r
    : r \in reqs }

\* if (abortControllerRef.current) abortControllerRef.current.abort()
AbortCurrent ==
  IF abortControllerRef # 0 THEN Abort(inflight, abortControllerRef) ELSE inflight

\* variant: the pending timer is left running
ClearCurrentTimerKeeps == timers

\* if (fetchTimeoutRef.current) clearTimeout(fetchTimeoutRef.current)
ClearCurrentTimer ==
  IF fetchTimeoutRef # 0 THEN {t \in timers : t.id # fetchTimeoutRef} ELSE timers

\* a continuation of a settled await is waiting to run
MicroPending == \E r \in inflight : r.state \in {"aborted", "hit"}

\* a timer has reached its time: its callback is the next task
TimerDue == \E t \in timers : now >= t.due

\* what the hook shows when a request is issued
Snapshot == [movies |-> movies, pagination |-> pagination, error |-> error]

\* fetchMovies up to its await (lines 53-81), for the filters its closure holds
FetchMovies(isInitial, flt) ==
  LET key == CacheKey(MoviesUrl(flt))
      hit == CacheFresh(key)
      req == [id |-> nextId, key |-> key,
              state |-> IF hit THEN "hit" ELSE "net",
              val |-> IF hit THEN CacheHitValue(key) ELSE NoValue,
              snap |-> Snapshot]
  IN /\ inflight' = AbortCurrent \cup {req}
     /\ abortControllerRef' = nextId
     /\ nextId' = nextId + 1
     /\ loading' = IF isInitial THEN TRUE ELSE loading
     /\ lastGet' = IF hit THEN [key |-> key, hit |-> TRUE, val |-> CacheHitValue(key),
                                 at |-> now, over |-> FALSE]
                   ELSE lastGet

\* variant: the finally block does not clear loading
FinallyKeepsLoading ==
  /\ loading' = loading
  /\ abortControllerRef' = 0
  /\ lateSet' = (lateSet \/ lifecycle = "unmounted")

\* finally { setLoading(false); abortControllerRef.current = null }
Finally ==
  /\ loading' = FALSE
  /\ abortControllerRef' = 0
  /\ lateSet' = (lateSet \/ lifecycle = "unmounted")

\* lines 86-93, for the value the awaited get resolved with; reading
\* .movies of a value without .data throws a TypeError into the catch
\* variant: the message of the response body is ignored
ErrorTextGeneric(err) == "Failed to fetch movies"

ErrorText(err) == IF err.respMsg # NoMsg THEN err.respMsg ELSE "Failed to fetch movies"

\* variant: an AbortError is handled like any other error
CatchEveryError(err) ==
  /\ error' = ErrorText(err)
  /\ UNCHANGED <<movies, pagination, isDataLoaded, applied>>

\* catch (err): an AbortError returns, any other error sets the error text
Catch(err) ==
  /\ error' = IF err.name = "AbortError" THEN error ELSE ErrorText(err)
  /\ UNCHANGED <<movies, pagination, isDataLoaded, applied>>

Resolve(r, v) ==
  IF v.shape = "response"
    THEN /\ movies' = v.body.movies
         /\ pagination' = Pagination(v.body)
         /\ error' = Null
         /\ isDataLoaded' = TRUE
         /\ applied' = [id |-> r.id, newest |-> nextId - 1, prev |-> applied.id]
    ELSE Catch(TypeError)

\* useEffect, first run (lines 110-112)
Mount ==
  /\ lifecycle = "rendered"
  /\ isInitialLoadRef
  /\ FetchMovies(TRUE, filters)
  /\ isInitialLoadRef' = FALSE
  /\ lifecycle' = "mounted"
  /\ UNCHANGED <<movies, error, pagination, isDataLoaded, filters, fetchTimeoutRef,
                 timers, cache, now, nextTimer, ticks, applied, lateSet, served,
                 lastDone, burst,
                 entityVars, seriesVars, paramVars, suggestVars>>

\* the parent renders the hook with another filters object: the cleanup of
\* the previous effect (lines 121-128), then the effect (lines 113-119).
\* A timer that is due runs first: a change made 150 ms or more after the
\* previous one finds that timer fired.
ChangeFilters(f) ==
  /\ lifecycle = "mounted"
  /\ ~MicroPending
  /\ ~TimerDue
  /\ nextTimer <= MaxChanges
  /\ ~isInitialLoadRef
  /\ filters' = f
  /\ inflight' = AbortCurrent
  /\ timers' = ClearCurrentTimer \cup
                 {[id |-> nextTimer, due |-> now + DebounceMs, flt |-> f]}
  /\ fetchTimeoutRef' = nextTimer
  /\ nextTimer' = nextTimer + 1
  /\ burst' = IF burst.len > 0 /\ now - burst.last < DebounceMs
                THEN [burst EXCEPT !.len = @ + 1, !.last = now]
                ELSE [len |-> 1, issued |-> 0, first |-> now, last |-> now, flt |-> f]
  /\ UNCHANGED <<movies, loading, error, pagination, isDataLoaded,
                 abortControllerRef, isInitialLoadRef, lifecycle, cache, now,
                 nextId, ticks, applied, lateSet, lastGet, served, lastDone,
                 entityVars, seriesVars, paramVars, suggestVars>>

\* the timer callback: () => fetchMovies(false), of the render that set it
TimerFire(t) ==
  /\ ~MicroPending
  /\ now >= t.due
  /\ timers' = timers \ {t}
  /\ FetchMovies(FALSE, t.flt)
  /\ burst' = [burst EXCEPT !.issued = @ + 1, !.flt = t.flt]
  /\ UNCHANGED <<movies, error, pagination, isDataLoaded, filters, fetchTimeoutRef,
                 isInitialLoadRef, lifecycle, cache, now, nextTimer, ticks,
                 applied, lateSet, served, lastDone,
                 entityVars, seriesVars, paramVars, suggestVars>>

\* refetch: () => fetchMovies(false) (line 131)
Refetch ==
  /\ lifecycle = "mounted"
  /\ ~MicroPending
  /\ nextId <= MaxRequests
  /\ FetchMovies(FALSE, filters)
  /\ UNCHANGED <<movies, error, pagination, isDataLoaded, filters, fetchTimeoutRef,
                 isInitialLoadRef, lifecycle, timers, cache, now, nextTimer, ticks,
                 applied, lateSet, served, lastDone, burst,
                 entityVars, seriesVars, paramVars, suggestVars>>

\* the component unmounts: the effect cleanup (lines 121-128)
Unmount ==
  /\ lifecycle = "mounted"
  /\ ~MicroPending
  /\ lifecycle' = "unmounted"
  /\ timers' = ClearCurrentTimer
  /\ inflight' = AbortCurrent
  /\ UNCHANGED <<movies, loading, error, pagination, isDataLoaded, filters,
                 fetchTimeoutRef, abortControllerRef, isInitialLoadRef, cache, now,
                 nextId, nextTimer, ticks, applied, lateSet, lastGet, served,
                 lastDone, burst,
                 entityVars, seriesVars, paramVars, suggestVars>>

\* the network answers a request with a 2xx: cachedApi.get stores and
\* returns (lines 33-39), fetchMovies continues (lines 83-93, 101-104)
NetSuccess(r, b) ==
  /\ ~MicroPending
  /\ r.state = "net"
  /\ inflight' = inflight \ {r}
  /\ cache' = CacheSet(r.key, b)
  /\ served' = [k \in DOMAIN served \cup {r.key} |->
                  IF k = r.key THEN CacheMissValue(b) ELSE served[k]]
  /\ lastGet' = [key |-> r.key, hit |-> FALSE, val |-> CacheMissValue(b),
                  at |-> now, over |-> CacheHas(r.key)]
  /\ Resolve(r, CacheMissValue(b))
  /\ Finally
  /\ lastDone' = [id |-> r.id, how |-> "ok", body |-> b, msg |-> NoMsg,
                  snap |-> r.snap, key |-> r.key]
  /\ UNCHANGED <<filters, fetchTimeoutRef, isInitialLoadRef, lifecycle, timers, now,
                 nextId, nextTimer, ticks, burst,
                 entityVars, seriesVars, paramVars, suggestVars>>

\* the request fails (network error, timeout, non-2xx): api.get rejects,
\* nothing is cached, fetchMovies continues in catch and finally
NetFail(r, msg) ==
  /\ ~MicroPending
  /\ r.state = "net"
  /\ inflight' = inflight \ {r}
  /\ cache' = CacheOnReject(r.key)
  /\ Catch(HttpError(msg))
  /\ Finally
  /\ lastDone' = [id |-> r.id, how |-> "fail", body |-> NoBody, msg |-> msg,
                  snap |-> r.snap, key |-> r.key]
  /\ UNCHANGED <<filters, fetchTimeoutRef, isInitialLoadRef, lifecycle, timers,
                 now, nextId, nextTimer, ticks, lastGet, served, burst,
                 entityVars, seriesVars, paramVars, suggestVars>>

\* the continuation of an aborted request: catch returns, finally runs
SettleAborted(r) ==
  /\ r.state = "aborted"
  /\ inflight' = inflight \ {r}
  /\ cache' = CacheOnReject(r.key)
  /\ Catch(AbortError)
  /\ Finally
  /\ lastDone' = [id |-> r.id, how |-> "abort", body |-> NoBody, msg |-> NoMsg,
                  snap |-> r.snap, key |-> r.key]
  /\ UNCHANGED <<filters, fetchTimeoutRef, isInitialLoadRef, lifecycle, timers,
                 now, nextId, nextTimer, ticks, lastGet, served, burst,
                 entityVars, seriesVars, paramVars, suggestVars>>

\* the continuation of a get that was answered by the cache
SettleHit(r) ==
  /\ r.state = "hit"
  /\ inflight' = inflight \ {r}
  /\ Resolve(r, r.val)
  /\ Finally
  /\ lastDone' = [id |-> r.id, how |-> "hit", body |-> r.val.body, msg |-> NoMsg,
                  snap |-> r.snap, key |-> r.key]
  /\ UNCHANGED <<filters, fetchTimeoutRef, isInitialLoadRef, lifecycle, timers, cache,
                 now, nextId, nextTimer, ticks, lastGet, served, burst,
                 entityVars, seriesVars, paramVars, suggestVars>>

\* time passes while the hook is mounted (the clock is read by its fetches
\* and timers only); a pending timer fires when its time is reached, not later
TickSteps == {75, 299925}

Tick(dt) ==
  /\ ~MicroPending
  /\ ticks < MaxTicks
  /\ lifecycle = "mounted"
  /\ \A t \in timers : now + dt <= t.due
  /\ now' = now + dt
  /\ ticks' = ticks + 1
  /\ UNCHANGED <<movies, loading, error, pagination, isDataLoaded, filters,
                 fetchTimeoutRef, abortControllerRef, isInitialLoadRef, lifecycle,
                 timers, inflight, cache, nextId, nextTimer, applied, lateSet,
                 lastGet, served, lastDone, burst,
                 entityVars, seriesVars, paramVars, suggestVars>>

NoneApplied == [id |-> 0, newest |-> 0, prev |-> 0]
NoGet == [key |-> "", hit |-> FALSE, val |-> NoValue, at |-> 0, over |-> FALSE]
NoneDone == [id |-> 0, how |-> "none", body |-> NoBody, msg |-> NoMsg,
             snap |-> [movies |-> <<>>, pagination |-> NullPagination, error |-> Null],
             key |-> ""]
EmptyMap == [k \in {} |-> NoValue]

\* the state after useMovies(filters) has rendered once (useState/useRef
\* initial values), with an empty cache
HookInit ==
  /\ movies = <<>>
  /\ loading = TRUE
  /\ error = Null
  /\ pagination = NullPagination
  /\ isDataLoaded = FALSE
  /\ filters = InitialFilters
  /\ fetchTimeoutRef = 0
  /\ abortControllerRef = 0
  /\ isInitialLoadRef = TRUE
  /\ lifecycle = "rendered"
  /\ timers = {}
  /\ inflight = {}
  /\ cache = EmptyMap
  /\ now = 0
  /\ nextId = 1
  /\ nextTimer = 1
  /\ ticks = 0
  /\ applied = NoneApplied
  /\ lateSet = FALSE
  /\ lastGet = NoGet
  /\ served = EmptyMap
  /\ lastDone = NoneDone
  /\ burst = [len |-> 0, issued |-> 0, first |-> 0, last |-> 0, flt |-> filters]

HookNext ==
  \/ Mount
  \/ \E f \in FilterSet : ChangeFilters(f)
  \/ \E t \in timers : TimerFire(t)
  \/ Refetch
  \/ Unmount
  \/ \E r \in inflight, b \in ServerBodies : NetSuccess(r, b)
  \/ \E r \in inflight, msg \in FailureMsgs : NetFail(r, msg)
  \/ \E r \in inflight : SettleAborted(r)
  \/ \E r \in inflight : SettleHit(r)
  \/ \E dt \in TickSteps : Tick(dt)

----------------------------------------------------------------------------
(* Single-entity hooks: useMovie, useRelatedMovies, useCategories,         *)
(* useStats, useSeriesDetails (useMovies.js:134-189, 220-268, 317-345)     *)

EntityHooks == {"useMovie", "useRelatedMovies", "useCategories", "useStats",
                "useSeriesDetails"}
IdKeyed == {"useMovie", "useRelatedMovies", "useSeriesDetails"}

\* the id prop: missing, or the id of an entity
IdSet == {"", "a", "b"}

\* response bodies: which id they answer and which version of the entity
NullData == [forId |-> "", v |-> 0]
EmptyList == [forId |-> "", v |-> -1]
EntityBodies(id) == {[forId |-> id, v |-> 1], [forId |-> id, v |-> 2]}

\* useState(null), useState([]) for the related list
InitialData(hook) == IF hook = "useRelatedMovies" THEN EmptyList ELSE NullData

FallbackText(hook) ==
  CASE hook = "useMovie" -> "Failed to fetch movies"
    [] hook = "useRelatedMovies" -> "Failed to fetch related movies"
    [] hook = "useCategories" -> "Failed to fetch categories"
    [] hook = "useStats" -> "Failed to fetch stats"
    [] hook = "useSeriesDetails" -> "Failed to fetch series details"

\* the catch block reads an identifier that is not declared in its scope
\* (useMovie, line 149: `params`), which throws a ReferenceError
CatchThrows(hook) == hook = "useMovie"

\* the fetch function up to its await: setLoading(true), api.get(...)
EntityFetch(id) ==
  /\ eLoading' = TRUE
  /\ eInflight' = eInflight \cup {[id |-> eNextId, forId |-> id]}
  /\ eNextId' = eNextId + 1

\* useEffect after the first render: `if (id) fetch()`, or fetch()
EMount ==
  /\ eLife = "rendered"
  /\ eLife' = "mounted"
  /\ IF eHook \in IdKeyed /\ eId = ""
       THEN UNCHANGED <<eLoading, eInflight, eNextId>>
       ELSE EntityFetch(eId)
  /\ UNCHANGED <<eHook, eId, eData, eError, eLast,
                 hookVars, seriesVars, paramVars, suggestVars>>

\* the id prop changes: the effect runs again (deps [id])
EChangeId(i) ==
  /\ eLife = "mounted"
  /\ eHook \in IdKeyed
  /\ i # eId
  /\ eNextId <= MaxEntityRequests
  /\ eId' = i
  /\ IF i = ""
       THEN UNCHANGED <<eLoading, eInflight, eNextId>>
       ELSE EntityFetch(i)
  /\ UNCHANGED <<eHook, eData, eError, eLife, eLast,
                 hookVars, seriesVars, paramVars, suggestVars>>

\* the request succeeds: setData(response.data), setError(null), finally
ESuccess(r, b) ==
  /\ eInflight' = eInflight \ {r}
  /\ eData' = b
  /\ eError' = Null
  /\ eLoading' = FALSE
  /\ eLast' = [id |-> r.id, how |-> "ok", msg |-> NoMsg, escaped |-> FALSE]
  /\ UNCHANGED <<eHook, eId, eLife, eNextId,
                 hookVars, seriesVars, paramVars, suggestVars>>

\* the request fails: catch, then finally
EFail(r, msg) ==
  /\ eInflight' = eInflight \ {r}
  /\ eError' = IF CatchThrows(eHook) THEN eError
               ELSE IF msg # NoMsg THEN msg ELSE FallbackText(eHook)
  /\ eLoading' = FALSE
  /\ eLast' = [id |-> r.id, how |-> "fail", msg |-> msg, escaped |-> CatchThrows(eHook)]
  /\ UNCHANGED <<eHook, eId, eData, eLife, eNextId,
                 hookVars, seriesVars, paramVars, suggestVars>>

EntityInit ==
  /\ eHook \in EntityHooks
  /\ eId \in IF eHook \in IdKeyed THEN IdSet ELSE {""}
  /\ eData = InitialData(eHook)
  /\ eLoading = TRUE
  /\ eError = Null
  /\ eLife = "rendered"
  /\ eInflight = {}
  /\ eNextId = 1
  /\ eLast = [id |-> 0, how |-> "none", msg |-> NoMsg, escaped |-> FALSE]

EntityNext ==
  \/ EMount
  \/ \E i \in IdSet : EChangeId(i)
  \/ \E r \in eInflight : \E b \in EntityBodies(r.forId) : ESuccess(r, b)
  \/ \E r \in eInflight, msg \in FailureMsgs : EFail(r, msg)

----------------------------------------------------------------------------
(* useSeries (useMovies.js:270-315) *)

SeriesUrl(f) == "/movies/series?" \o ParamsToString(AppendFilters(f, 1, <<>>))

SeriesBody3 == [series |-> <<"s1", "s2", "s3">>, total |-> 3, page |-> 1, pages |-> 1]
SeriesBody1 == [series |-> <<"s4">>, total |-> 1, page |-> 1, pages |-> 1]
SeriesBodies == {SeriesBody3, SeriesBody1}

\* fetchSeries up to its await (lines 277-290), for the filters of its closure
FetchSeries(isInitial, flt) ==
  /\ sLoading' = IF isInitial THEN TRUE ELSE sLoading
  /\ sInflight' = sInflight \cup {[id |-> sNextId, url |-> SeriesUrl(flt)]}
  /\ sNextId' = sNextId + 1
  /\ sIssuedFor' = SeriesUrl(flt)

\* useEffect, first run (lines 307-312)
SMount ==
  /\ sLifecycle = "rendered"
  /\ sInitialRef
  /\ sInitialRef' = FALSE
  /\ sLifecycle' = "mounted"
  /\ FetchSeries(TRUE, sFilters)
  /\ UNCHANGED <<sSeries, sError, sPagination, sFilters,
                 hookVars, entityVars, paramVars, suggestVars>>

\* the parent passes another filters object: fetchSeries is a new callback,
\* the effect runs again and finds isInitialLoadRef.current false
SChangeFilters(f) ==
  /\ sLifecycle = "mounted"
  /\ f # sFilters
  /\ sFilters' = f
  /\ IF sInitialRef
       THEN sInitialRef' = FALSE /\ FetchSeries(TRUE, f)
       ELSE UNCHANGED <<sInitialRef, sLoading, sInflight, sNextId, sIssuedFor>>
  /\ UNCHANGED <<sSeries, sError, sPagination, sLifecycle,
                 hookVars, entityVars, paramVars, suggestVars>>

\* refetch: () => fetchSeries(false) (line 314)
SRefetch ==
  /\ sLifecycle = "mounted"
  /\ sNextId <= MaxSeriesRequests
  /\ FetchSeries(FALSE, sFilters)
  /\ UNCHANGED <<sSeries, sError, sPagination, sFilters, sInitialRef, sLifecycle,
                 hookVars, entityVars, paramVars, suggestVars>>

\* lines 290-298, 302-304
SSuccess(r, b) ==
  /\ sInflight' = sInflight \ {r}
  /\ sSeries' = b.series
  /\ sPagination' = Pagination(b)
  /\ sError' = Null
  /\ sLoading' = FALSE
  /\ UNCHANGED <<sFilters, sInitialRef, sLifecycle, sNextId, sIssuedFor,
                 hookVars, entityVars, paramVars, suggestVars>>

\* lines 299-304
SFail(r, msg) ==
  /\ sInflight' = sInflight \ {r}
  /\ sError' = IF msg # NoMsg THEN msg ELSE "Failed to fetch series"
  /\ sLoading' = FALSE
  /\ UNCHANGED <<sSeries, sPagination, sFilters, sInitialRef, sLifecycle, sNextId,
                 sIssuedFor,
                 hookVars, entityVars, paramVars, suggestVars>>

SeriesInit ==
  /\ sSeries = <<>>
  /\ sLoading = FALSE
  /\ sError = Null
  /\ sPagination = NullPagination
  /\ sFilters \in FilterSet
  /\ sInitialRef = TRUE
  /\ sLifecycle = "rendered"
  /\ sInflight = {}
  /\ sNextId = 1
  /\ sIssuedFor = ""

SeriesNext ==
  \/ SMount
  \/ \E f \in FilterSet : SChangeFilters(f)
  \/ SRefetch
  \/ \E r \in sInflight, b \in SeriesBodies : SSuccess(r, b)
  \/ \E r \in sInflight, msg \in FailureMsgs : SFail(r, msg)

----------------------------------------------------------------------------
(* The query string of useMovies, for every filters object                 *)
(* (useMovies.js:66-76)                                                    *)

ParamGenres == {JsUndefined, JsNull, JsStr(""), JsStr("drama")}
ParamLimits == {JsUndefined, JsNull, JsStr(""), JsNum(0), JsNum(24)}
ParamFilters == [genre : ParamGenres, limit : ParamLimits]

\* the hook is rendered with a filters object
PRender(f) ==
  /\ pFilters' = f
  /\ pBuilt' = FALSE
  /\ UNCHANGED <<pParams, hookVars, entityVars, seriesVars, suggestVars>>

\* fetchMovies builds its URLSearchParams (lines 66-76)
PBuild ==
  /\ ~pBuilt
  /\ pParams' = BuildParams(pFilters)
  /\ pBuilt' = TRUE
  /\ UNCHANGED <<pFilters, hookVars, entityVars, seriesVars, suggestVars>>

ParamInit ==
  /\ pFilters \in ParamFilters
  /\ pParams = <<>>
  /\ pBuilt = FALSE

ParamNext ==
  \/ \E f \in ParamFilters : PRender(f)
  \/ PBuild

----------------------------------------------------------------------------
(* useSearchSuggestions (useMovies.js:191-218) *)

\* query strings, as sequences of characters
QuerySet == {<<>>, <<"a">>, <<"a", "b">>, <<"a", " ", "b">>}

\* encodeURIComponent, on the characters of QuerySet
EncodeChar(c) == IF c = " " THEN "%20" ELSE c

RECURSIVE EncodeURIComponent(_)
EncodeURIComponent(q) ==
  IF q = <<>> THEN "" ELSE EncodeChar(Head(q)) \o EncodeURIComponent(Tail(q))

SuggestUrl(q) == "/movies/search-suggestions?q=" \o EncodeURIComponent(q)

EmptySuggestions == [forQ |-> <<>>, n |-> 0]
\* the lists the server can answer a query with
SuggestBodies(q) == {[forQ |-> q, n |-> 1], [forQ |-> q, n |-> 2]}

\* variant: only the empty query is skipped
QShortOnlyEmpty(q) == q = <<>>

\* !query || query.length < 2
QShort(q) == q = <<>> \/ Len(q) < 2

NoneSuggested == [n |-> 0, how |-> "none", q |-> <<>>]

\* fetchSuggestions, run by the timer for the query of its render
FetchSuggestions(q) ==
  IF QShort(q)
    THEN /\ qSuggestions' = EmptySuggestions
         /\ qLast' = [n |-> qLast.n + 1, how |-> "skip", q |-> q]
         /\ UNCHANGED <<qLoading, qInflight, qNextId>>
    ELSE /\ qLoading' = TRUE
         /\ qInflight' = qInflight \cup {[id |-> qNextId, q |-> q, url |-> SuggestUrl(q)]}
         /\ qNextId' = qNextId + 1
         /\ qLast' = [n |-> qLast.n + 1, how |-> "issue", q |-> q]
         /\ UNCHANGED qSuggestions

\* useEffect after the first render: setTimeout(fetchSuggestions, 300)
QMount ==
  /\ qLife = "rendered"
  /\ qLife' = "mounted"
  /\ qTimers' = {[q |-> qQuery]}
  /\ UNCHANGED <<qQuery, qSuggestions, qLoading, qInflight, qNextId, qChanges, qLast,
                 hookVars, entityVars, seriesVars, paramVars>>

\* the query changes: the cleanup clears the timer of the previous effect,
\* the effect arms a new one
QChangeQuery(q) ==
  /\ qLife = "mounted"
  /\ q # qQuery
  /\ qChanges < MaxQueryChanges
  /\ qChanges' = qChanges + 1
  /\ qQuery' = q
  /\ qTimers' = (qTimers \ {[q |-> qQuery]}) \cup {[q |-> q]}
  /\ UNCHANGED <<qSuggestions, qLoading, qLife, qInflight, qNextId, qLast,
                 hookVars, entityVars, seriesVars, paramVars>>

\* the timer fires, 300 ms after it was armed
QTimerFire(t) ==
  /\ qTimers' = qTimers \ {t}
  /\ FetchSuggestions(t.q)
  /\ UNCHANGED <<qQuery, qLife, qChanges,
                 hookVars, entityVars, seriesVars, paramVars>>

\* lines 204-205, 208-210
QSuccess(r, b) ==
  /\ qInflight' = qInflight \ {r}
  /\ qSuggestions' = b
  /\ qLoading' = FALSE
  /\ qLast' = [n |-> qLast.n + 1, how |-> "ok", q |-> r.q]
  /\ UNCHANGED <<qQuery, qLife, qTimers, qNextId, qChanges,
                 hookVars, entityVars, seriesVars, paramVars>>

\* lines 206-210
QFail(r) ==
  /\ qInflight' = qInflight \ {r}
  /\ qSuggestions' = EmptySuggestions
  /\ qLoading' = FALSE
  /\ qLast' = [n |-> qLast.n + 1, how |-> "fail", q |-> r.q]
  /\ UNCHANGED <<qQuery, qLife, qTimers, qNextId, qChanges,
                 hookVars, entityVars, seriesVars, paramVars>>

SuggestInit ==
  /\ qQuery \in QuerySet
  /\ qSuggestions = EmptySuggestions
  /\ qLoading = FALSE
  /\ qLife = "rendered"
  /\ qTimers = {}
  /\ qInflight = {}
  /\ qNextId = 1
  /\ qChanges = 0
  /\ qLast = NoneSuggested

SuggestNext ==
  \/ QMount
  \/ \E q \in QuerySet : QChangeQuery(q)
  \/ \E t \in qTimers : QTimerFire(t)
  \/ \E r \in qInflight : \E b \in SuggestBodies(r.q) : QSuccess(r, b)
  \/ \E r \in qInflight : QFail(r)

----------------------------------------------------------------------------
(* Specifications: one hook instance each; the other hooks are not rendered *)

HookIdle == HookInit

EntityIdle ==
  /\ EntityInit
  /\ eHook = "useCategories"

SeriesIdle ==
  /\ SeriesInit
  /\ sFilters = CHOOSE f \in FilterSet : TRUE

ParamIdle ==
  /\ ParamInit
  /\ pFilters = InitialFilters

SuggestIdle ==
  /\ SuggestInit
  /\ qQuery = <<>>

\* useMovies with cachedApi
Init == HookInit /\ EntityIdle /\ SeriesIdle /\ ParamIdle /\ SuggestIdle
Next == HookNext
Spec == Init /\ [][Next]_vars

\* a single-entity hook
InitEntity == EntityInit /\ HookIdle /\ SeriesIdle /\ ParamIdle /\ SuggestIdle
NextEntity == EntityNext
SpecEntity == InitEntity /\ [][NextEntity]_vars

\* useSeries
InitSeries == SeriesInit /\ HookIdle /\ EntityIdle /\ ParamIdle /\ SuggestIdle
NextSeries == SeriesNext
SpecSeries == InitSeries /\ [][NextSeries]_vars

\* the query string of useMovies
InitParams == ParamInit /\ HookIdle /\ EntityIdle /\ SeriesIdle /\ SuggestIdle
NextParams == ParamNext
SpecParams == InitParams /\ [][NextParams]_vars

\* useSearchSuggestions
InitSuggest == SuggestInit /\ HookIdle /\ EntityIdle /\ SeriesIdle /\ ParamIdle
NextSuggest == SuggestNext
SpecSuggest == InitSuggest /\ [][NextSuggest]_vars

----------------------------------------------------------------------------
(* Properties of useMovies and cachedApi, checked under Spec *)

Outstanding == {r \in inflight : r.state = "net"}

\* C1: at any time at most one request of the hook instance is outstanding
\* (issued, not cancelled, not yet completed)
C1_AtMostOneOutstanding == Cardinality(Outstanding) <= 1

\* C2: responses are applied in issuance order, and a response is applied
\* only while its request is the newest one the instance has issued (a
\* superseded or cancelled request's response is never applied)
C2_AppliedInIssuanceOrder ==
  /\ applied.id = applied.newest
  /\ applied.id > 0 => applied.prev < applied.id

\* C3: a run of filter changes, each less than 150 ms after the previous
\* one, leads to exactly one request, built from the last filter value:
\* while the window of the last change is open no request of the run has
\* been issued and exactly one timer, holding the last filters, is pending;
\* once it has elapsed, that timer is the next task or has issued the one
\* request of the run.
C3_DebounceIssuesOne ==
  (lifecycle = "mounted" /\ burst.len > 0) =>
    LET last == [id |-> fetchTimeoutRef, due |-> burst.last + DebounceMs,
                 flt |-> filters]
    IN IF now - burst.last < DebounceMs
         THEN burst.issued = 0 /\ timers = {last}
         ELSE \/ burst.issued = 0 /\ timers = {last}
              \/ burst.issued = 1 /\ timers = {} /\ burst.flt = filters

\* a run of two changes made at different times has ended with its
\* request issued
C3_Witness ==
  /\ lifecycle = "mounted"
  /\ burst.len >= 2
  /\ burst.first < burst.last
  /\ burst.issued = 1
  /\ now - burst.last >= DebounceMs

C5_HitReturnsPopulatingValue ==
  lastGet.hit => lastGet.val = served[lastGet.key]

\* C6: a fetch whose GET succeeds, by the network or by the cache, ends with
\* movies and pagination of the response, error = null and loading = false
C6_SuccessEndsLoaded ==
  lastDone.how \in {"ok", "hit"} =>
    /\ movies = lastDone.body.movies
    /\ pagination = Pagination(lastDone.body)
    /\ error = Null
    /\ loading = FALSE

\* C7: after unmount no timer is pending, no request is outstanding and no
\* state setter of the instance runs
C7_QuietAfterUnmount ==
  /\ ~lateSet
  /\ lifecycle = "unmounted" => (timers = {} /\ Outstanding = {})

\* C10: a request that fails for a reason other than abort leaves movies and
\* pagination as they were and sets error to the message of the response
\* body when there is one, else to 'Failed to fetch movies'
C10_FailureKeepsData ==
  [][(lastDone' # lastDone /\ lastDone'.how = "fail") =>
       /\ movies' = movies
       /\ pagination' = pagination
       /\ error' = IF lastDone'.msg # NoMsg THEN lastDone'.msg
                   ELSE "Failed to fetch movies"]_vars

\* a request has failed with a message in the body, over loaded data
C10_Witness ==
  /\ lastDone.how = "fail"
  /\ lastDone.msg = "server error"
  /\ error = "server error"
  /\ movies # <<>>

\* C11: every fetch that terminates, by success, failure or abort, leaves
\* loading = false, and whenever every issued request has terminated
\* loading is false
C11_LoadingCleared ==
  [][/\ lastDone' # lastDone => loading' = FALSE
     /\ (lifecycle' # "rendered" /\ inflight' = {}) => loading' = FALSE]_vars

\* the initial request was aborted and nothing is in flight
C11_Witness ==
  /\ lastDone.how = "abort"
  /\ lastDone.id = 1
  /\ inflight = {}
  /\ loading = FALSE

\* C14: a get that finds no entry, or one of 300000 ms or older, goes to the
\* network; on success the entry of its key holds the fresh body and the
\* current time and the fresh response is returned; a value is returned
\* from the cache only while its entry is younger than 300000 ms
C14_StaleIsRefetched ==
  /\ \A r \in inflight :
       r.state = "hit" => (CacheHas(r.key) /\ now - cache[r.key].timestamp < CacheTtlMs)
  /\ lastGet.key # "" =>
       IF lastGet.hit
         THEN lastGet.at - cache[lastGet.key].timestamp < CacheTtlMs
         ELSE /\ cache[lastGet.key] = [data |-> lastGet.val.body, timestamp |-> lastGet.at]
              /\ lastGet.val = Response(lastGet.val.body)

\* an entry that had reached 300000 ms was replaced by a fresh response
C14_Witness ==
  /\ lastGet.key # ""
  /\ ~lastGet.hit
  /\ lastGet.over
  /\ lastGet.at >= CacheTtlMs
  /\ Cardinality(DOMAIN cache) = 1

\* C15: a get whose request fails or is aborted leaves the cache as it was
C15_NoNegativeCaching ==
  [][(lastDone' # lastDone /\ lastDone'.how \in {"fail", "abort"}) =>
       cache' = cache]_vars

\* a request for a key with a stale entry has failed
C15_Witness ==
  /\ lastDone.how = "fail"
  /\ CacheHas(lastDone.key)
  /\ ~CacheFresh(lastDone.key)

\* C16: when a fetch starts, no debounce timer of the instance is left
\* pending
C16_FetchLeavesNoTimer ==
  [][nextId' # nextId => timers' = {}]_vars

----------------------------------------------------------------------------
(* Property of the single-entity hooks, checked under SpecEntity *)

\* C8: a failed request ends with error = the message of the response body
\* or the fallback text, loading = false, data unchanged, and no exception
\* leaves the fetch function
C8_FailureIsCaught ==
  [][(eLast' # eLast /\ eLast'.how = "fail") =>
       /\ eError' = IF eLast'.msg # NoMsg THEN eLast'.msg ELSE FallbackText(eHook)
       /\ eLoading' = FALSE
       /\ eData' = eData
       /\ ~eLast'.escaped]_vars

----------------------------------------------------------------------------
(* Property of useSeries, checked under SpecSeries *)

\* C9: every change of the filters is followed by a fetch built from the new
\* filters; the hook has no timer, so once nothing is in flight the fetch
\* for the current filters has been issued
C9_FilterChangeRefetches ==
  (sLifecycle = "mounted" /\ sInflight = {}) => sIssuedFor = SeriesUrl(sFilters)

----------------------------------------------------------------------------
(* Properties of the query string, checked under SpecParams *)

EmptyValue(v) == v.t = "undefined" \/ v.t = "null" \/ (v.t = "string" /\ v.s = "")

\* C12: the query string has no parameter for a filter whose value is '',
\* null or undefined (the limit parameter of such a filters object is the
\* default 12), has every other filter with its value, and has limit=12
\* when the filters have no limit
C12_EmptyFiltersLeftOut ==
  pBuilt =>
    /\ \A i \in 1..Len(FilterKeys) :
         LET k == FilterKeys[i]
             v == pFilters[k]
         IN IF EmptyValue(v)
              THEN \A j \in 1..Len(pParams) :
                     pParams[j][1] = k => (k = "limit" /\ pParams[j][2] = "12")
              ELSE \E j \in 1..Len(pParams) : pParams[j] = <<k, JsString(v)>>
    /\ EmptyValue(pFilters.limit) =>
         \E j \in 1..Len(pParams) : pParams[j] = <<"limit", "12">>

\* the query string of {genre: null} has been built
C12_Witness ==
  /\ pBuilt
  /\ pFilters = [genre |-> JsNull, limit |-> JsUndefined]
  /\ pParams = << <<"limit", "12">> >>

\* C18: the query string has exactly one limit parameter: the limit of the
\* filters when they supply one (0 included), else 12
C18_OneLimitParameter ==
  pBuilt =>
    LET limits == {j \in 1..Len(pParams) : pParams[j][1] = "limit"}
    IN /\ Cardinality(limits) = 1
       /\ \A j \in limits :
            pParams[j][2] = IF EmptyValue(pFilters.limit) THEN "12"
                            ELSE JsString(pFilters.limit)

----------------------------------------------------------------------------
(* Properties of useSearchSuggestions, checked under SpecSuggest *)

\* C13: a debounced fetch that runs with a query shorter than 2 characters
\* issues no request and sets suggestions to the empty list; a failed
\* request ends with suggestions empty
C13_ShortQuerySkipsNetwork ==
  [][qLast' # qLast =>
       /\ (qLast'.how \in {"skip", "issue"} /\ Len(qLast'.q) < 2) =>
            (qInflight' = qInflight /\ qNextId' = qNextId
             /\ qSuggestions' = EmptySuggestions)
       /\ qLast'.how = "fail" =>
            (qSuggestions' = EmptySuggestions /\ qLoading' = FALSE)]_vars

\* after a request had been issued, the fetch ran with a one-character query
C13_Witness ==
  /\ qLast.how = "skip"
  /\ Len(qLast.q) = 1
  /\ qNextId > 1
  /\ qSuggestions = EmptySuggestions

\* C17: once the last timer has fired and every request has completed,
\* suggestions is empty when the query is shorter than 2 characters and
\* otherwise is not the answer to another query
C17_SuggestionsMatchQuery ==
  (qLife = "mounted" /\ qTimers = {} /\ qInflight = {}) =>
    IF Len(qQuery) < 2 THEN qSuggestions = EmptySuggestions
    ELSE qSuggestions = EmptySuggestions \/ qSuggestions.forQ = qQuery

----------------------------------------------------------------------------
(* Property of the id-keyed hooks, checked under SpecEntity *)

\* C19: once every request has completed, the entity is not the response
\* for another id than the current one, and loading is false, for a missing
\* id too
C19_EntityMatchesId ==
  (eHook \in IdKeyed /\ eLife = "mounted" /\ eInflight = {}) =>
    /\ eLoading = FALSE
    /\ eData = InitialData(eHook) \/ eData.forId = eId

====
